---- MODULE Spec2Model ----
(***************************************************************************)
(* Model of the LuaFramework bridge.                                       *)
(*                                                                         *)
(*  - Attachment bootstrap: DllMain of the two forwarding stubs            *)
(*    (src/d3d11/dllmain.cpp, src/hid/dllmain.cpp; identical logic).       *)
(*  - Capability registry: luaf::Api (src/luaf-include/luaframework/       *)
(*    API.hpp).                                                            *)
(*                                                                         *)
(* Wide strings are sequences of tokens.  A token stands for a run of      *)
(* characters; the tokens are chosen so that no token is a substring or a  *)
(* concatenation of other tokens, hence equality and substring search on   *)
(* token sequences agree with equality and substring search on the         *)
(* characters.                                                             *)
(***************************************************************************)
EXTENDS Integers, Sequences, FiniteSets, TLC

\* ------------------------------------------------------------------------
\* Bounds
\* ------------------------------------------------------------------------
MaxDepth == 2       \* path components below the drive in the host's path
MaxEvents == 2      \* loader notifications delivered to each stub

\* ------------------------------------------------------------------------
\* Constants of the stubs
\* ------------------------------------------------------------------------
MODULE_NAME == <<"lua_framework.dll">>
EXPECT_EXE_NAME == <<"MonsterHunterWorld.exe">>

SEP == "\\"
npos == -1

Stubs == {"d3d11", "hid"}

\* fs::path relPath = "lua_framework/bin", made absolute by fs::canonical
BinDir == <<"C:", SEP, "lua_framework", SEP, "bin">>
\* a directory that only the unqualified search order visits (cwd, PATH)
PathDir == <<"C:", SEP, "untrusted">>
SysDll == <<"C:", SEP, "Windows", SEP, "kernel32.dll">>

\* ------------------------------------------------------------------------
\* String helpers
\* ------------------------------------------------------------------------
\* std::wstring::find(pattern): first index (0-based) of pattern, or npos
Find(s, pat) ==
    LET hits == {i \in 0..(Len(s) - Len(pat)) :
                    \A k \in 1..Len(pat) : s[i + k] = pat[k]}
    IN IF hits = {} THEN npos
       ELSE CHOOSE i \in hits : \A j \in hits : i <= j

\* the last component of a path: what the loader calls the module's name
FileName(p) ==
    LET seps == {i \in 1..Len(p) : p[i] = SEP}
    IN IF seps = {} THEN p
       ELSE SubSeq(p, (CHOOSE i \in seps : \A j \in seps : j <= i) + 1, Len(p))

\* std::find(modules.begin(), modules.end(), moduleName) != modules.end()
ContainsModule(mods, moduleName) ==
    \E i \in 1..Len(mods) : mods[i] = moduleName

\* ------------------------------------------------------------------------
\* The process the stubs are loaded into
\* ------------------------------------------------------------------------
Components == {EXPECT_EXE_NAME, <<"Other.exe">>, <<"Not">> \o EXPECT_EXE_NAME}

RECURSIVE PathsOfDepth(_)
PathsOfDepth(n) ==
    IF n = 0 THEN {<<"C:">>}
    ELSE {p \o <<SEP>> \o c : p \in PathsOfDepth(n - 1), c \in Components}

ExePaths == UNION {PathsOfDepth(n) : n \in 1..MaxDepth}

\* what is on disk: does lua_framework/bin exist, does it hold the core
\* module, is there a module of the same name on the unqualified search order
Envs == {e \in [binDirExists : BOOLEAN, coreInBin : BOOLEAN, coreInPath : BOOLEAN] :
            e.coreInBin => e.binDirExists}

\* the core module may have been mapped before either stub is notified, from
\* wherever a file of that name exists
CorePathIn(dir) == dir \o <<SEP>> \o MODULE_NAME

Premapped(e) ==
    {<<>>} \cup {<<CorePathIn(BinDir)>> : x \in {y \in {1} : e.coreInBin}}
           \cup {<<CorePathIn(PathDir)>> : x \in {y \in {1} : e.coreInPath}}

VARIABLES
    exePath,          \* wil::GetModuleFileNameW(): the process's executable
    env,              \* the file system, fixed for the process lifetime
    modules,          \* modules mapped into the process, as file paths
    searchRestricted, \* SetDefaultDllDirectories(SEARCH_DEFAULT_DIRS) applied
    dllDirs,          \* directories added with AddDllDirectory
    pc,               \* per stub: position of its DllMain
    snap,             \* per stub: the local variable `modules` of DllMain
    ev,               \* per stub: what the current/last notification did
    evCount,          \* per stub: notifications delivered so far
    s_instance,       \* Api::s_instance: the singleton, or NullInst
    allocs,           \* Api objects constructed so far
    first,            \* the instance made by the first successful initialize
    apc,              \* per thread: position inside the Api call it is making
    acall,            \* per thread: the current/last Api call and its result
    calls,            \* per thread: Api calls made so far
    registrar,        \* the table owner's named functions: key -> pointer
    sink,             \* the calls the table's log entry point has received
    logCalls,         \* the Log:: calls made so far, in order
    tableCalls,       \* calls made through the table's entry points so far
    registered        \* per name: the pointer last registered under it

bootVars == <<exePath, env, modules, searchRestricted, dllDirs, pc, snap, ev, evCount>>

tableVars == <<registrar, sink, logCalls, tableCalls, registered>>

apiVars == <<s_instance, allocs, first, apc, acall, calls, tableVars>>

vars == <<bootVars, apiVars>>

CoreMapped(mods) == \E i \in 1..Len(mods) : FileName(mods[i]) = MODULE_NAME

\* GetCurrentProcessModules(): the file path of every mapped module
GetCurrentProcessModules == modules

NoEvent ==
    [reason |-> "none", reserved |-> FALSE, enumerated |-> FALSE,
     mappedAtEnum |-> FALSE, setDefault |-> 0, addDir |-> 0,
     resolveFailed |-> FALSE, loads |-> 0, restrictedAtLoad |-> FALSE,
     loadOk |-> FALSE, dialogs |-> 0, escaped |-> FALSE,
     modulesBefore |-> <<>>, state |-> "Unattached", ret |-> "pending"]

NewEvent(reason, reserved) ==
    [NoEvent EXCEPT !.reason = reason, !.reserved = reserved,
                    !.modulesBefore = modules]

InitBoot ==
    /\ exePath \in ExePaths
    /\ env \in Envs
    /\ modules \in {<<exePath, SysDll>> \o pre : pre \in Premapped(env)}
    /\ searchRestricted = FALSE
    /\ dllDirs = {}
    /\ pc = [s \in Stubs |-> "idle"]
    /\ snap = [s \in Stubs |-> <<>>]
    /\ ev = [s \in Stubs |-> NoEvent]
    /\ evCount = [s \in Stubs |-> 0]

\* ------------------------------------------------------------------------
\* DllMain
\* ------------------------------------------------------------------------
\* case DLL_PROCESS_ATTACH: modules = GetCurrentProcessModules()
ProcessAttach(s) ==
    /\ pc[s] = "idle"
    /\ evCount[s] < MaxEvents
    /\ evCount' = [evCount EXCEPT ![s] = @ + 1]
    /\ snap' = [snap EXCEPT ![s] = GetCurrentProcessModules]
    /\ ev' = [ev EXCEPT ![s] =
                [NewEvent("DLL_PROCESS_ATTACH", FALSE) EXCEPT
                    !.enumerated = TRUE,
                    !.mappedAtEnum = CoreMapped(modules)]]
    /\ pc' = [pc EXCEPT ![s] = "host"]
    /\ UNCHANGED <<exePath, env, modules, searchRestricted, dllDirs, apiVars>>

\* "Check if loaded by game"
HostCheckPasses == Find(exePath, EXPECT_EXE_NAME) # npos

HostCheck(s) ==
    /\ pc[s] = "host"
    /\ IF HostCheckPasses
       THEN /\ pc' = [pc EXCEPT ![s] = "dup"]
            /\ ev' = ev
       ELSE /\ pc' = [pc EXCEPT ![s] = "idle"]
            /\ ev' = [ev EXCEPT ![s].state = "HostMismatch", ![s].ret = "TRUE"]
    /\ UNCHANGED <<exePath, env, modules, searchRestricted, dllDirs, snap, evCount, apiVars>>

\* "Check if already loaded"
AlreadyLoaded(s) == ContainsModule(snap[s], MODULE_NAME)

DupCheck(s) ==
    /\ pc[s] = "dup"
    /\ IF AlreadyLoaded(s)
       THEN /\ pc' = [pc EXCEPT ![s] = "idle"]
            /\ ev' = [ev EXCEPT ![s].state = "AlreadyAttached", ![s].ret = "TRUE"]
       ELSE /\ pc' = [pc EXCEPT ![s] = "path"]
            /\ ev' = ev
    /\ UNCHANGED <<exePath, env, modules, searchRestricted, dllDirs, snap, evCount, apiVars>>

\* fs::canonical(relPath): the absolute path, or a filesystem_error
Canonical ==
    IF env.binDirExists THEN [thrown |-> "none", path |-> BinDir]
    ELSE [thrown |-> "filesystem_error", path |-> <<>>]

\* a handler that catches only allocation failures
CatchesStdException_Narrow(e) == e \in {"bad_alloc"}

\* catch (const std::exception &e) { }
CatchesStdException(e) == e \in {"filesystem_error", "bad_alloc", "runtime_error"}

\* AddDllPath(path): does it reach SetDefaultDllDirectories / AddDllDirectory
AddDllPathActs(path) == path # <<>>

\* a catch handler that gives up the attachment instead of going on
AddPath_ReturnOnThrow(s) ==
    /\ pc[s] = "path"
    /\ LET c == Canonical IN
       IF c.thrown # "none"
       THEN /\ UNCHANGED <<searchRestricted, dllDirs>>
            /\ ev' = [ev EXCEPT ![s].resolveFailed = TRUE,
                                ![s].state = "Failed", ![s].ret = "TRUE"]
            /\ pc' = [pc EXCEPT ![s] = "idle"]
       ELSE /\ searchRestricted' = TRUE
            /\ dllDirs' = dllDirs \cup {c.path}
            /\ ev' = [ev EXCEPT ![s].setDefault = @ + 1, ![s].addDir = @ + 1,
                                ![s].state = "PathExtended"]
            /\ pc' = [pc EXCEPT ![s] = "load"]
    /\ UNCHANGED <<exePath, env, modules, snap, evCount, apiVars>>

\* the try block of DllMain: canonical, then AddDllPath
AddPath(s) ==
    /\ pc[s] = "path"
    /\ LET c == Canonical IN
       IF c.thrown # "none"
       THEN /\ UNCHANGED <<searchRestricted, dllDirs>>
            /\ IF CatchesStdException(c.thrown)
               THEN /\ ev' = [ev EXCEPT ![s].resolveFailed = TRUE]
                    /\ pc' = [pc EXCEPT ![s] = "load"]
               ELSE /\ ev' = [ev EXCEPT ![s].resolveFailed = TRUE,
                                        ![s].escaped = TRUE,
                                        ![s].state = "Failed"]
                    /\ pc' = [pc EXCEPT ![s] = "idle"]
       ELSE IF AddDllPathActs(c.path)
       THEN /\ searchRestricted' = TRUE
            /\ dllDirs' = dllDirs \cup {c.path}
            /\ ev' = [ev EXCEPT ![s].setDefault = @ + 1, ![s].addDir = @ + 1,
                                ![s].state = "PathExtended"]
            /\ pc' = [pc EXCEPT ![s] = "load"]
       ELSE /\ UNCHANGED <<searchRestricted, dllDirs, ev>>
            /\ pc' = [pc EXCEPT ![s] = "load"]
    /\ UNCHANGED <<exePath, env, modules, snap, evCount, apiVars>>

\* LoadLibraryW(MODULE_NAME): a module of that name that is already mapped is
\* returned; otherwise the loader walks the search order in effect
LoadLibraryW ==
    IF CoreMapped(modules) THEN [ok |-> TRUE, mapped |-> <<>>]
    ELSE IF searchRestricted
         THEN IF BinDir \in dllDirs /\ env.coreInBin
              THEN [ok |-> TRUE, mapped |-> CorePathIn(BinDir)]
              ELSE [ok |-> FALSE, mapped |-> <<>>]
         ELSE IF env.coreInPath
              THEN [ok |-> TRUE, mapped |-> CorePathIn(PathDir)]
              ELSE [ok |-> FALSE, mapped |-> <<>>]

\* a failed load that goes unreported
ShowsDialog_Never(ok) == FALSE

\* hCore = LoadLibraryW(MODULE_NAME); if (!hCore) MessageBoxW(...); return TRUE
ShowsDialog(ok) == ~ok

\* a load that is tried again after a failure
Load_Retry(s) ==
    /\ pc[s] = "load"
    /\ LET r == LoadLibraryW IN
       /\ modules' = IF r.mapped # <<>> THEN Append(modules, r.mapped) ELSE modules
       /\ ev' = [ev EXCEPT ![s].loads = @ + 1,
                           ![s].restrictedAtLoad = searchRestricted,
                           ![s].loadOk = r.ok,
                           ![s].dialogs = IF ~r.ok /\ ev[s].loads >= 1 THEN @ + 1 ELSE @,
                           ![s].state = IF r.ok THEN "CoreLoaded" ELSE "Failed",
                           ![s].ret = "TRUE"]
       /\ pc' = [pc EXCEPT ![s] = IF ~r.ok /\ ev[s].loads = 0 THEN "load" ELSE "idle"]
    /\ UNCHANGED <<exePath, env, searchRestricted, dllDirs, snap, evCount, apiVars>>

Load(s) ==
    /\ pc[s] = "load"
    /\ LET r == LoadLibraryW IN
       /\ modules' = IF r.mapped # <<>> THEN Append(modules, r.mapped) ELSE modules
       /\ ev' = [ev EXCEPT ![s].loads = @ + 1,
                           ![s].restrictedAtLoad = searchRestricted,
                           ![s].loadOk = r.ok,
                           ![s].dialogs = IF ShowsDialog(r.ok) THEN @ + 1 ELSE @,
                           ![s].state = IF r.ok THEN "CoreLoaded" ELSE "Failed",
                           ![s].ret = "TRUE"]
    /\ pc' = [pc EXCEPT ![s] = "idle"]
    /\ UNCHANGED <<exePath, env, searchRestricted, dllDirs, snap, evCount, apiVars>>

\* case DLL_THREAD_ATTACH: break;
ThreadAttach(s) ==
    /\ pc[s] = "idle"
    /\ evCount[s] < MaxEvents
    /\ evCount' = [evCount EXCEPT ![s] = @ + 1]
    /\ ev' = [ev EXCEPT ![s] = [NewEvent("DLL_THREAD_ATTACH", FALSE) EXCEPT !.ret = "TRUE"]]
    /\ UNCHANGED <<exePath, env, modules, searchRestricted, dllDirs, pc, snap, apiVars>>

\* case DLL_THREAD_DETACH: break;
ThreadDetach(s) ==
    /\ pc[s] = "idle"
    /\ evCount[s] < MaxEvents
    /\ evCount' = [evCount EXCEPT ![s] = @ + 1]
    /\ ev' = [ev EXCEPT ![s] = [NewEvent("DLL_THREAD_DETACH", FALSE) EXCEPT !.ret = "TRUE"]]
    /\ UNCHANGED <<exePath, env, modules, searchRestricted, dllDirs, pc, snap, apiVars>>

\* a detach that frees the core module when the process is not terminating
ProcessDetach_Unload(s, reserved) ==
    /\ pc[s] = "idle"
    /\ evCount[s] < MaxEvents
    /\ evCount' = [evCount EXCEPT ![s] = @ + 1]
    /\ modules' = IF reserved THEN modules
                  ELSE SelectSeq(modules, LAMBDA m : FileName(m) # MODULE_NAME)
    /\ ev' = [ev EXCEPT ![s] = [NewEvent("DLL_PROCESS_DETACH", reserved) EXCEPT !.ret = "TRUE"]]
    /\ UNCHANGED <<exePath, env, searchRestricted, dllDirs, pc, snap, apiVars>>

\* case DLL_PROCESS_DETACH: if (lpvReserved != nullptr) break; break;
ProcessDetach(s, reserved) ==
    /\ pc[s] = "idle"
    /\ evCount[s] < MaxEvents
    /\ evCount' = [evCount EXCEPT ![s] = @ + 1]
    /\ ev' = [ev EXCEPT ![s] = [NewEvent("DLL_PROCESS_DETACH", reserved) EXCEPT !.ret = "TRUE"]]
    /\ UNCHANGED <<exePath, env, modules, searchRestricted, dllDirs, pc, snap, apiVars>>

NextBoot ==
    \/ \E s \in Stubs : ProcessAttach(s)
    \/ \E s \in Stubs : HostCheck(s)
    \/ \E s \in Stubs : DupCheck(s)
    \/ \E s \in Stubs : AddPath(s)
    \/ \E s \in Stubs : Load(s)
    \/ \E s \in Stubs : ThreadAttach(s)
    \/ \E s \in Stubs : ThreadDetach(s)
    \/ \E s \in Stubs : \E reserved \in BOOLEAN : ProcessDetach(s, reserved)

\* ------------------------------------------------------------------------
\* luaf::Api, the capability registry
\* ------------------------------------------------------------------------
NumTables == 2      \* distinct CoreAPIParam tables a caller may pass
NumThreads == 2     \* threads of the host that call into the registry
MaxCalls == 2       \* registry calls made by each thread
MaxOps == 4         \* registry calls made in all, where the table is modelled

NULL == 0
Tables == 1..NumTables
Threads == 1..NumThreads

\* names of registered functions and function pointers
Names == {<<"a">>, <<"b", "c">>}
NumFns == 2
Fns == 1..NumFns

\* the keys a (bytes, length) name can denote: the prefixes of the names
Keys == UNION {{SubSeq(n, 1, k) : k \in 0..Len(n)} : n \in Names}

\* the name the table's registrar is handed: the first len bytes at data
Key(data, len) == SubSeq(data, 1, len)

\* the table owner's registrar stores an entry under the name it receives
RegistrarAdd(reg, data, len, fn) == [reg EXCEPT ![Key(data, len)] = fn]

\* ... and looks an entry up under the name it receives; null if absent
RegistrarGet(reg, data, len) == reg[Key(data, len)]

\* enum Level : uint32_t
Trace == 0
Debug == 1
Info == 2
Warn == 3
Error == 4

LogFns == {"trace", "debug", "info", "warn", "error"}

\* format templates and the argument they are rendered with
Formats == {<<"h", "i">>, <<"n", "=", "{}">>}
FormatArgs == {<<"4", "2">>}

\* std::vformat(fmt.get(), std::make_format_args(args...))
RECURSIVE vformat(_, _)
vformat(fmt, arg) ==
    IF fmt = <<>> THEN <<>>
    ELSE IF Head(fmt) = "{}" THEN arg \o vformat(Tail(fmt), arg)
    ELSE <<Head(fmt)>> \o vformat(Tail(fmt), arg)

\* std::unique_ptr<Api> s_instance{}: empty
NullInst == [id |-> NULL, m_param |-> NULL]

\* a constructor that forgets the table it is given
NewApi_DropsParam(n, param) == [id |-> n, m_param |-> NULL]

\* Api(const CoreAPIParam* param) : m_param{param}
NewApi(n, param) == [id |-> n, m_param |-> param]

NoCall == [op |-> "none", arg |-> NULL, before |-> NullInst,
           outcome |-> "pending", what |-> "", ret |-> NullInst,
           after |-> NullInst,
           bytes |-> <<>>,      \* the name or the rendered message
           fptr |-> NULL,       \* the function pointer passed or returned
           expect |-> NULL,     \* the pointer last registered under the name
           passedLen |-> -1,    \* the length handed to the table
           passedLevel |-> -1,  \* the level handed to the table
           tcBefore |-> 0, tcAfter |-> 0]

InitApi ==
    /\ s_instance = NullInst
    /\ allocs = 0
    /\ first = NullInst
    /\ apc = [t \in Threads |-> "idle"]
    /\ acall = [t \in Threads |-> NoCall]
    /\ calls = [t \in Threads |-> 0]
    /\ registrar = [k \in Keys |-> NULL]
    /\ sink = <<>>
    /\ logCalls = <<>>
    /\ tableCalls = 0
    /\ registered = [n \in Names |-> NULL]

\* the registry is called from one thread at a time
Serial == \A u \in Threads : apc[u] = "idle"

\* a thread enters Api::initialize(param)
InitializeCall(t, param) ==
    /\ apc[t] = "idle"
    /\ calls' = [calls EXCEPT ![t] = @ + 1]
    /\ acall' = [acall EXCEPT ![t] =
                    [NoCall EXCEPT !.op = "initialize", !.arg = param,
                                   !.before = s_instance]]
    /\ apc' = [apc EXCEPT ![t] = "init_param"]
    /\ UNCHANGED <<s_instance, allocs, first, bootVars, tableVars>>

\* an initialize that does not look at its argument
InitCheckParam_Skip(t) ==
    /\ apc[t] = "init_param"
    /\ acall' = acall
    /\ apc' = [apc EXCEPT ![t] = "init_instance"]
    /\ UNCHANGED <<s_instance, allocs, first, calls, bootVars, tableVars>>

\* if (param == nullptr) throw std::runtime_error("param is null");
InitCheckParam(t) ==
    /\ apc[t] = "init_param"
    /\ IF acall[t].arg = NULL
       THEN /\ acall' = [acall EXCEPT ![t].outcome = "throw",
                                      ![t].what = "param is null",
                                      ![t].after = s_instance]
            /\ apc' = [apc EXCEPT ![t] = "idle"]
       ELSE /\ acall' = acall
            /\ apc' = [apc EXCEPT ![t] = "init_instance"]
    /\ UNCHANGED <<s_instance, allocs, first, calls, bootVars, tableVars>>

\* an initialize that may be repeated
InitCheckInstance_Skip(t) ==
    /\ apc[t] = "init_instance"
    /\ acall' = acall
    /\ apc' = [apc EXCEPT ![t] = "init_make"]
    /\ UNCHANGED <<s_instance, allocs, first, calls, bootVars, tableVars>>

\* if (s_instance != nullptr) throw std::runtime_error("API already initialized");
InitCheckInstance(t) ==
    /\ apc[t] = "init_instance"
    /\ IF s_instance # NullInst
       THEN /\ acall' = [acall EXCEPT ![t].outcome = "throw",
                                      ![t].what = "API already initialized",
                                      ![t].after = s_instance]
            /\ apc' = [apc EXCEPT ![t] = "idle"]
       ELSE /\ acall' = acall
            /\ apc' = [apc EXCEPT ![t] = "init_make"]
    /\ UNCHANGED <<s_instance, allocs, first, calls, bootVars, tableVars>>

\* s_instance = std::make_unique<Api>(param); return s_instance;
InitMake(t) ==
    /\ apc[t] = "init_make"
    /\ allocs' = allocs + 1
    /\ s_instance' = NewApi(allocs + 1, acall[t].arg)
    /\ first' = IF first = NullInst THEN s_instance' ELSE first
    /\ acall' = [acall EXCEPT ![t].outcome = "ok", ![t].ret = s_instance',
                                 ![t].after = s_instance']
    /\ apc' = [apc EXCEPT ![t] = "idle"]
    /\ UNCHANGED <<calls, bootVars, tableVars>>

\* a get that constructs the singleton on first use
Get_Lazy(t) ==
    /\ apc[t] = "idle"
    /\ calls' = [calls EXCEPT ![t] = @ + 1]
    /\ s_instance' = IF s_instance = NullInst THEN [id |-> allocs + 1, m_param |-> NULL]
                     ELSE s_instance
    /\ allocs' = IF s_instance = NullInst THEN allocs + 1 ELSE allocs
    /\ acall' = [acall EXCEPT ![t] =
                    [NoCall EXCEPT !.op = "get", !.before = s_instance,
                                   !.tcBefore = tableCalls,
                                   !.tcAfter = tableCalls,
                                   !.outcome = "ok", !.ret = s_instance',
                                   !.after = s_instance']]
    /\ UNCHANGED <<first, apc, bootVars, tableVars>>

\* a get that reports its use through the table's log entry point
Get_Logs(t) ==
    /\ apc[t] = "idle"
    /\ calls' = [calls EXCEPT ![t] = @ + 1]
    /\ sink' = IF s_instance = NullInst THEN sink
               ELSE Append(sink, [level |-> 0, len |-> 0])
    /\ tableCalls' = IF s_instance = NullInst THEN tableCalls ELSE tableCalls + 1
    /\ acall' = [acall EXCEPT ![t] =
                    IF s_instance = NullInst
                    THEN [NoCall EXCEPT !.op = "get", !.before = s_instance,
                                        !.tcBefore = tableCalls,
                                        !.tcAfter = tableCalls,
                                        !.outcome = "throw",
                                        !.what = "API not initialized",
                                        !.after = s_instance]
                    ELSE [NoCall EXCEPT !.op = "get", !.before = s_instance,
                                        !.tcBefore = tableCalls,
                                        !.tcAfter = tableCalls + 1,
                                        !.outcome = "ok", !.ret = s_instance,
                                        !.after = s_instance]]
    /\ UNCHANGED <<s_instance, allocs, first, apc, registrar, logCalls, registered, bootVars>>

\* Api::get(): throws before initialization, else returns s_instance
Get(t) ==
    /\ apc[t] = "idle"
    /\ calls' = [calls EXCEPT ![t] = @ + 1]
    /\ acall' = [acall EXCEPT ![t] =
                    IF s_instance = NullInst
                    THEN [NoCall EXCEPT !.op = "get", !.before = s_instance,
                                        !.tcBefore = tableCalls,
                                        !.tcAfter = tableCalls,
                                        !.outcome = "throw",
                                        !.what = "API not initialized",
                                        !.after = s_instance]
                    ELSE [NoCall EXCEPT !.op = "get", !.before = s_instance,
                                        !.tcBefore = tableCalls,
                                        !.tcAfter = tableCalls,
                                        !.outcome = "ok", !.ret = s_instance,
                                        !.after = s_instance]]
    /\ UNCHANGED <<s_instance, allocs, first, apc, bootVars, tableVars>>

\* a facade whose warn was copied from error
FacadeLevel_WarnAsError(f) ==
    CASE f = "trace" -> 0
      [] f = "debug" -> 1
      [] f = "info" -> 2
      [] f = "warn" -> 4
      [] f = "error" -> 4

\* the Level each Log:: function passes to Log::log
FacadeLevel(f) ==
    CASE f = "trace" -> Trace
      [] f = "debug" -> Debug
      [] f = "info" -> Info
      [] f = "warn" -> Warn
      [] f = "error" -> Error

\* log_to_logger: m_param->log(level, msg.data(), 0)
LogPassedLen(msg) == 0

\* Log::log written as m_param->log(...) on the stored table, without
\* going through Api::get()
LogCall_NoGet(t, f, fmt, arg) ==
    /\ apc[t] = "idle"
    /\ calls' = [calls EXCEPT ![t] = @ + 1]
    /\ logCalls' = Append(logCalls, [fn |-> f, inited |-> s_instance # NullInst])
    /\ LET msg == vformat(fmt, arg) IN
       /\ sink' = Append(sink, [level |-> FacadeLevel(f),
                                len |-> LogPassedLen(msg)])
       /\ tableCalls' = tableCalls + 1
       /\ acall' = [acall EXCEPT ![t] =
                      [NoCall EXCEPT !.op = f, !.before = s_instance,
                                     !.bytes = msg,
                                     !.passedLevel = FacadeLevel(f),
                                     !.passedLen = LogPassedLen(msg),
                                     !.tcBefore = tableCalls,
                                     !.tcAfter = tableCalls + 1,
                                     !.outcome = "ok",
                                     !.after = s_instance]]
    /\ UNCHANGED <<s_instance, allocs, first, apc, registrar, registered, bootVars>>

\* Log::trace/debug/info/warn/error(fmt, args...): render, then
\* Api::get()->log_to_logger(level, msg)
LogCall(t, f, fmt, arg) ==
    /\ apc[t] = "idle"
    /\ calls' = [calls EXCEPT ![t] = @ + 1]
    /\ logCalls' = Append(logCalls, [fn |-> f, inited |-> s_instance # NullInst])
    /\ LET msg == vformat(fmt, arg) IN
       IF s_instance = NullInst
       THEN /\ acall' = [acall EXCEPT ![t] =
                           [NoCall EXCEPT !.op = f, !.before = s_instance,
                                          !.bytes = msg,
                                          !.tcBefore = tableCalls,
                                          !.tcAfter = tableCalls,
                                          !.outcome = "throw",
                                          !.what = "API not initialized",
                                          !.after = s_instance]]
            /\ UNCHANGED <<sink, tableCalls>>
       ELSE /\ sink' = Append(sink, [level |-> FacadeLevel(f),
                                     len |-> LogPassedLen(msg)])
            /\ tableCalls' = tableCalls + 1
            /\ acall' = [acall EXCEPT ![t] =
                           [NoCall EXCEPT !.op = f, !.before = s_instance,
                                          !.bytes = msg,
                                          !.passedLevel = FacadeLevel(f),
                                          !.passedLen = LogPassedLen(msg),
                                          !.tcBefore = tableCalls,
                                          !.tcAfter = tableCalls + 1,
                                          !.outcome = "ok",
                                          !.after = s_instance]]
    /\ UNCHANGED <<s_instance, allocs, first, apc, registrar, registered, bootVars>>

\* add_core_function / get_core_function: the name_len handed to the table
\* (the entry points are those of the table's functions member)
NamePassedLen(name) == 0

\* Api::add_core_function(name, fun), on the instance returned by get()
AddCoreFunction(t, name, fun) ==
    /\ apc[t] = "idle"
    /\ s_instance # NullInst
    /\ calls' = [calls EXCEPT ![t] = @ + 1]
    /\ registrar' = RegistrarAdd(registrar, name, NamePassedLen(name), fun)
    /\ registered' = [registered EXCEPT ![name] = fun]
    /\ tableCalls' = tableCalls + 1
    /\ acall' = [acall EXCEPT ![t] =
                    [NoCall EXCEPT !.op = "add_core_function",
                                   !.before = s_instance,
                                   !.bytes = name, !.fptr = fun,
                                   !.passedLen = NamePassedLen(name),
                                   !.tcBefore = tableCalls,
                                   !.tcAfter = tableCalls + 1,
                                   !.outcome = "ok", !.after = s_instance]]
    /\ UNCHANGED <<s_instance, allocs, first, apc, sink, logCalls, bootVars>>

\* Api::get_core_function(method), on the instance returned by get()
GetCoreFunction(t, name) ==
    /\ apc[t] = "idle"
    /\ s_instance # NullInst
    /\ calls' = [calls EXCEPT ![t] = @ + 1]
    /\ tableCalls' = tableCalls + 1
    /\ acall' = [acall EXCEPT ![t] =
                    [NoCall EXCEPT !.op = "get_core_function",
                                   !.before = s_instance,
                                   !.bytes = name,
                                   !.expect = registered[name],
                                   !.fptr = RegistrarGet(registrar, name,
                                                         NamePassedLen(name)),
                                   !.passedLen = NamePassedLen(name),
                                   !.tcBefore = tableCalls,
                                   !.tcAfter = tableCalls + 1,
                                   !.outcome = "ok", !.after = s_instance]]
    /\ UNCHANGED <<s_instance, allocs, first, apc, registrar, sink, logCalls, registered, bootVars>>

\* thread t has calls left to make
HasCalls(t) == calls[t] < MaxCalls

NextApi ==
    \/ \E t \in Threads : \E param \in {NULL} \cup Tables :
          Serial /\ HasCalls(t) /\ InitializeCall(t, param)
    \/ \E t \in Threads : InitCheckParam(t)
    \/ \E t \in Threads : InitCheckInstance(t)
    \/ \E t \in Threads : InitMake(t)
    \/ \E t \in Threads : Serial /\ HasCalls(t) /\ Get(t)

\* threads of the free-threaded host calling initialize and get at will
NextApiConc ==
    \/ \E t \in Threads : \E param \in {NULL} \cup Tables :
          HasCalls(t) /\ InitializeCall(t, param)
    \/ \E t \in Threads : InitCheckParam(t)
    \/ \E t \in Threads : InitCheckInstance(t)
    \/ \E t \in Threads : InitMake(t)
    \/ \E t \in Threads : HasCalls(t) /\ Get(t)

RECURSIVE SumCalls(_)
SumCalls(n) == IF n = 0 THEN 0 ELSE calls[n] + SumCalls(n - 1)

\* a new call may start: no call is in progress and the budget is not spent
MayCall == Serial /\ SumCalls(NumThreads) < MaxOps

\* the thread that drives the registry where the table is modelled
MainThread == CHOOSE t \in Threads : \A u \in Threads : t <= u

\* every operation of the registry and of the logging facade, called one
\* after the other by one thread
NextTable ==
    \/ \E param \in {NULL} \cup Tables :
          MayCall /\ InitializeCall(MainThread, param)
    \/ InitCheckParam(MainThread)
    \/ InitCheckInstance(MainThread)
    \/ InitMake(MainThread)
    \/ MayCall /\ Get(MainThread)
    \/ \E f \in LogFns : \E fmt \in Formats : \E arg \in FormatArgs :
          MayCall /\ LogCall(MainThread, f, fmt, arg)
    \/ \E name \in Names : \E fun \in Fns :
          MayCall /\ AddCoreFunction(MainThread, name, fun)
    \/ \E name \in Names :
          MayCall /\ GetCoreFunction(MainThread, name)

\* ------------------------------------------------------------------------
\* Specifications
\* ------------------------------------------------------------------------
Init == InitBoot /\ InitApi

Next == NextBoot

\* the two stubs in one process
Spec == Init /\ [][Next]_vars

\* the registry, called from one thread at a time, in a fixed process
InitApiOnly ==
    /\ exePath = <<"C:", SEP>> \o EXPECT_EXE_NAME
    /\ env = [binDirExists |-> TRUE, coreInBin |-> TRUE, coreInPath |-> FALSE]
    /\ modules = <<exePath, SysDll, CorePathIn(BinDir)>>
    /\ searchRestricted = TRUE
    /\ dllDirs = {BinDir}
    /\ pc = [s \in Stubs |-> "idle"]
    /\ snap = [s \in Stubs |-> <<>>]
    /\ ev = [s \in Stubs |-> NoEvent]
    /\ evCount = [s \in Stubs |-> 0]
    /\ InitApi

SpecApi == InitApiOnly /\ [][NextApi]_vars

\* the registry, called from several threads at once
SpecApiConc == InitApiOnly /\ [][NextApiConc]_vars

\* the registry with the table's entry points, called one at a time
SpecTable == InitApiOnly /\ [][NextTable]_vars

\* ------------------------------------------------------------------------
\* Properties
\* ------------------------------------------------------------------------
\* the name of the process's executable: the last component of its path
ExeName == FileName(exePath)

IsExpectedHost == ExeName = EXPECT_EXE_NAME

\* stub s has handled a process-attach notification to the end
AttachDone(s) == pc[s] = "idle" /\ ev[s].reason = "DLL_PROCESS_ATTACH"

\* C1: a process attach handled in the expected host while the core module
\* is already mapped makes no load attempt, does not extend the search path
\* and ends in AlreadyAttached.
C1_AttachIsIdempotent ==
    \A s \in Stubs :
        (ev[s].reason = "DLL_PROCESS_ATTACH" /\ IsExpectedHost /\ ev[s].mappedAtEnum)
        => /\ ev[s].loads = 0
           /\ ev[s].setDefault = 0
           /\ ev[s].addDir = 0
           /\ pc[s] = "idle" => ev[s].state = "AlreadyAttached"

\* C2: when both stubs have handled one process attach each in the expected
\* host, the load attempts of the two stubs add up to exactly one.  Stated
\* for the orders in which one stub is notified before the core module is
\* mapped and the other enumerates the modules after it has been mapped.
C2_OnlyOneStubLoads ==
    ( /\ IsExpectedHost
      /\ \A s \in Stubs : AttachDone(s) /\ evCount[s] = 1
      /\ \E s, u \in Stubs : ~ev[s].mappedAtEnum /\ ev[u].mappedAtEnum )
    => ev["d3d11"].loads + ev["hid"].loads = 1

\* C3: in a process whose executable name is not MonsterHunterWorld.exe, a
\* process attach extends no search path, loads nothing, shows no dialog and
\* ends in HostMismatch.
C3_WrongHostIsInert ==
    \A s \in Stubs :
        (ev[s].reason = "DLL_PROCESS_ATTACH" /\ ~IsExpectedHost)
        => /\ ev[s].setDefault = 0
           /\ ev[s].addDir = 0
           /\ ev[s].loads = 0
           /\ ev[s].dialogs = 0
           /\ pc[s] = "idle" => ev[s].state = "HostMismatch"

\* C4: in the expected host with the core module not mapped, a process
\* attach whose load fails ends in Failed, has shown exactly one dialog and
\* returns TRUE.
C4_LoadFailureIsReported ==
    \A s \in Stubs :
        ( /\ AttachDone(s) /\ IsExpectedHost /\ ~ev[s].mappedAtEnum
          /\ ev[s].loads > 0 /\ ~ev[s].loadOk )
        => /\ ev[s].state = "Failed"
           /\ ev[s].dialogs = 1
           /\ ev[s].ret = "TRUE"
           /\ ~ev[s].escaped

C4_Witness ==
    \E s \in Stubs :
        /\ AttachDone(s) /\ IsExpectedHost /\ ~ev[s].mappedAtEnum
        /\ ev[s].loads = 1 /\ ~ev[s].loadOk
        /\ ev[s].state = "Failed" /\ ev[s].dialogs = 1 /\ ev[s].ret = "TRUE"

C6_LoadOnlyUnderRestrictedSearch ==
    \A s \in Stubs : ev[s].loads > 0 => ev[s].restrictedAtLoad

\* C7: when lua_framework/bin cannot be resolved, the exception is caught,
\* no dialog is shown for it, and the attach goes on to exactly one load
\* attempt (a dialog then appears only if that load fails).
C7_ResolveFailureIsSwallowed ==
    \A s \in Stubs :
        ev[s].resolveFailed
        => /\ ~ev[s].escaped
           /\ pc[s] \in {"load", "idle"}
           /\ pc[s] = "load" => (ev[s].loads = 0 /\ ev[s].dialogs = 0)
           /\ pc[s] = "idle" =>
                 /\ ev[s].loads = 1
                 /\ ev[s].dialogs = IF ev[s].loadOk THEN 0 ELSE 1

C7_Witness ==
    \E s \in Stubs :
        /\ AttachDone(s) /\ ev[s].resolveFailed /\ ~ev[s].mappedAtEnum
        /\ ev[s].loads = 1 /\ ev[s].loadOk /\ ev[s].dialogs = 0

\* C8: in the expected host with the core module not yet mapped, a process
\* attach makes exactly one load attempt, and when that attempt succeeds the
\* event ends in CoreLoaded without a dialog.
C8_ExactlyOneLoadAttempt ==
    \A s \in Stubs :
        /\ ev[s].loads <= 1
        /\ (AttachDone(s) /\ IsExpectedHost /\ ~ev[s].mappedAtEnum)
           => /\ ev[s].loads = 1
              /\ ev[s].loadOk => (ev[s].state = "CoreLoaded" /\ ev[s].dialogs = 0)

C8_Witness ==
    \E s \in Stubs :
        /\ AttachDone(s) /\ IsExpectedHost /\ ~ev[s].mappedAtEnum
        /\ ev[s].loads = 1 /\ ev[s].loadOk
        /\ ev[s].state = "CoreLoaded" /\ ev[s].dialogs = 0

\* thread t has finished a call of Api::initialize
InitializeDone(t) == apc[t] = "idle" /\ acall[t].op = "initialize"

\* C9: initialize(nullptr) throws "param is null" whether or not the
\* registry is initialized, and leaves s_instance as it was.
C9_NullTableIsRejected ==
    \A t \in Threads :
        (InitializeDone(t) /\ acall[t].arg = NULL)
        => /\ acall[t].outcome = "throw"
           /\ acall[t].what = "param is null"
           /\ acall[t].after = acall[t].before

C9_Witness ==
    \E t, u \in Threads :
        /\ InitializeDone(t) /\ acall[t].arg = NULL
        /\ acall[t].before = NullInst /\ acall[t].what = "param is null"
        /\ InitializeDone(u) /\ acall[u].arg = NULL
        /\ acall[u].before # NullInst /\ acall[u].what = "param is null"
        /\ acall[u].after = acall[u].before

\* C10: once an initialize has succeeded, every later initialize throws,
\* whatever its argument, and s_instance stays the instance (with the table
\* pointer) made by the first successful call.
C10_SecondInitializeFails ==
    /\ \A t \in Threads :
          (InitializeDone(t) /\ acall[t].before # NullInst)
          => /\ acall[t].outcome = "throw"
             /\ acall[t].after = acall[t].before
    /\ first # NullInst => s_instance = first

C10_Witness ==
    \E t \in Threads :
        /\ InitializeDone(t) /\ acall[t].before # NullInst
        /\ acall[t].arg \in Tables /\ acall[t].arg # acall[t].before.m_param
        /\ acall[t].what = "API already initialized"
        /\ s_instance = first

\* C11: under every interleaving of threads calling initialize, at most one
\* Api object is ever constructed and at most one initialize call returns
\* successfully.
C11_AtMostOneInitializeSucceeds ==
    /\ allocs <= 1
    /\ Cardinality({t \in Threads : InitializeDone(t) /\ acall[t].outcome = "ok"}) <= 1

\* thread t has finished a call of Api::get
GetDone(t) == apc[t] = "idle" /\ acall[t].op = "get"

\* C12: a get made while no initialize has succeeded throws "API not
\* initialized" and leaves s_instance empty.
C12_GetBeforeInitializeFails ==
    \A t \in Threads :
        (GetDone(t) /\ acall[t].before = NullInst)
        => /\ acall[t].outcome = "throw"
           /\ acall[t].what = "API not initialized"
           /\ acall[t].after = NullInst

C12_Witness ==
    \E t, u \in Threads :
        /\ GetDone(t) /\ acall[t].before = NullInst /\ acall[t].outcome = "throw"
        /\ InitializeDone(u) /\ acall[u].outcome = "throw"
        /\ first = NullInst /\ s_instance = NullInst /\ allocs = 0

\* C13: a step in which a thread calls get on the initialized registry
\* returns the instance made by the successful initialize and changes
\* neither s_instance nor anything behind the table.
C13_GetIsSideEffectFree ==
    [][\A t \in Threads :
          (calls'[t] = calls[t] + 1 /\ acall'[t].op = "get" /\ s_instance # NullInst)
          => /\ acall'[t].outcome = "ok"
             /\ acall'[t].ret = first
             /\ s_instance' = s_instance
             /\ tableVars' = tableVars]_vars

C13_Witness ==
    \E t \in Threads :
        /\ GetDone(t) /\ acall[t].outcome = "ok"
        /\ first # NullInst /\ acall[t].ret = first
        /\ s_instance = first
        /\ Len(sink) > 0 /\ \E n \in Names : registered[n] # NULL

\* thread t has finished a call of Api::get_core_function
LookupDone(t) == apc[t] = "idle" /\ acall[t].op = "get_core_function"

\* C14: get_core_function(name) returns the pointer that was last passed to
\* add_core_function under that name.
C14_RegisteredFunctionIsFound ==
    \A t \in Threads :
        (LookupDone(t) /\ acall[t].expect # NULL)
        => acall[t].fptr = acall[t].expect

\* C15: get_core_function(name) returns null when nothing was registered
\* under that name, whatever was registered under other names.
C15_UnregisteredNameGivesNull ==
    \A t \in Threads :
        (LookupDone(t) /\ acall[t].expect = NULL)
        => acall[t].fptr = NULL

\* thread t has made a Log:: call that reached the table's log entry point
LogDone(t) == apc[t] = "idle" /\ acall[t].op \in LogFns /\ acall[t].outcome = "ok"

\* C16: the length handed to the table's log entry point is the byte length
\* of the rendered message.
C16_LogLengthIsMessageLength ==
    \A t \in Threads : LogDone(t) => acall[t].passedLen = Len(acall[t].bytes)

\* the Log:: calls made on an initialized registry, in order
ServedLogCalls == SelectSeq(logCalls, LAMBDA c : c.inited)

\* the level the sink is to see for each function of the facade
SinkLevelOf ==
    [f \in LogFns |->
        CASE f = "trace" -> 0 [] f = "debug" -> 1 [] f = "info" -> 2
          [] f = "warn" -> 3 [] f = "error" -> 4]

\* C17: the log sink of the table held by the registry has received exactly
\* one call per Log:: call made on it, in the order of the calls, each with
\* the level of its function: trace 0, debug 1, info 2, warn 3, error 4.
C17_OneSinkCallPerLogCall ==
    /\ Len(sink) = Len(ServedLogCalls)
    /\ \A i \in 1..Len(sink) : sink[i].level = SinkLevelOf[ServedLogCalls[i].fn]
    /\ \A t \in Threads : LogDone(t) =>
          /\ acall[t].tcAfter = acall[t].tcBefore + 1
          /\ acall[t].passedLevel = SinkLevelOf[acall[t].op]

C17_Witness ==
    /\ Len(sink) = 2
    /\ sink[1].level = 3 /\ sink[2].level = 0
    /\ ServedLogCalls[1].fn = "warn" /\ ServedLogCalls[2].fn = "trace"

IgnoredReasons == {"DLL_THREAD_ATTACH", "DLL_THREAD_DETACH", "DLL_PROCESS_DETACH"}

\* C18: a step in which a stub is handed a thread attach, a thread detach or
\* a process detach enumerates no modules, leaves the search path and the
\* mapped modules as they are, loads nothing, shows no dialog and returns.
C18_OtherNotificationsAreIgnored ==
    [][\A s \in Stubs :
          (evCount'[s] = evCount[s] + 1 /\ ev'[s].reason \in IgnoredReasons)
          => /\ modules' = modules
             /\ searchRestricted' = searchRestricted
             /\ dllDirs' = dllDirs
             /\ snap' = snap
             /\ pc'[s] = "idle"
             /\ ~ev'[s].enumerated
             /\ ev'[s].setDefault = 0 /\ ev'[s].addDir = 0
             /\ ev'[s].loads = 0 /\ ev'[s].dialogs = 0
             /\ ev'[s].ret = "TRUE"]_vars

C18_Witness ==
    \E s, u \in Stubs :
        /\ pc[s] = "idle" /\ ev[s].reason = "DLL_PROCESS_DETACH" /\ ~ev[s].reserved
        /\ AttachDone(u) /\ ev[u].state = "CoreLoaded"
        /\ CoreMapped(ev[s].modulesBefore)
        /\ modules = ev[s].modulesBefore

\* C19: add_core_function and get_core_function hand the table a name_len
\* equal to the byte length of the name.
C19_NameLengthIsPassed ==
    \A t \in Threads :
        (apc[t] = "idle" /\ acall[t].op \in {"add_core_function", "get_core_function"})
        => acall[t].passedLen = Len(acall[t].bytes)

\* C20: an initialized registry holds a non-null table pointer, the one
\* passed to the successful initialize, and is still the instance that call
\* made, whatever get, log, add_core_function, get_core_function or failing
\* initialize calls have followed.
C20_TablePointerIsNeverReassigned ==
    /\ s_instance # NullInst =>
          /\ s_instance.m_param \in Tables
          /\ s_instance = first
    /\ \A t \in Threads :
          (InitializeDone(t) /\ acall[t].outcome = "ok")
          => /\ acall[t].ret.m_param = acall[t].arg
             /\ s_instance = acall[t].ret

C20_Witness ==
    /\ s_instance # NullInst /\ s_instance = first
    /\ Len(sink) > 0
    /\ \E n \in Names : registered[n] # NULL
    /\ \E t \in Threads :
          /\ InitializeDone(t) /\ acall[t].outcome = "throw"
          /\ acall[t].before = s_instance /\ acall[t].arg \in Tables

\* C21: no entry point of the table is invoked before an initialize has
\* succeeded: while no instance was ever stored, the table has been called
\* zero times, the sink holds no record and the registrar holds no function;
\* and every Log::trace/debug/info/warn/error call that found the registry
\* uninitialized ended with the "API not initialized" error without a call
\* of the table, so the sink holds one record per call made on an
\* initialized registry and none for the others.
LogOnUninitialized(t) ==
    /\ apc[t] = "idle"
    /\ acall[t].op \in LogFns
    /\ acall[t].before = NullInst

C21_NoTableCallBeforeInitialize ==
    /\ first = NullInst
          => /\ tableCalls = 0
             /\ sink = <<>>
             /\ \A k \in Keys : registrar[k] = NULL
             /\ \A i \in 1..Len(logCalls) : ~logCalls[i].inited
    /\ \A t \in Threads :
          LogOnUninitialized(t)
          => /\ acall[t].outcome = "throw"
             /\ acall[t].what = "API not initialized"
             /\ acall[t].tcAfter = acall[t].tcBefore
    /\ Len(sink) = Cardinality({i \in 1..Len(logCalls) : logCalls[i].inited})

C21_Witness ==
    /\ first = NullInst /\ s_instance = NullInst
    /\ Len(logCalls) >= 2
    /\ sink = <<>> /\ tableCalls = 0
    /\ \E t \in Threads :
          /\ LogOnUninitialized(t)
          /\ acall[t].outcome = "throw"
          /\ acall[t].what = "API not initialized"
          /\ Len(acall[t].bytes) > 0

====
